---- MODULE Spec2Model ----
(***************************************************************************)
(* ConvexPolyhedronConvexPolyhedronManifoldGenerator (ncollide): the      *)
(* persistent contact-manifold generator between two convex polyhedra.     *)
(*                                                                         *)
(* The generator is a sequential state machine driven by update().  The    *)
(* collaborators that live outside this file (the GJK/EPA query, the       *)
(* shapes' feature extractors, the 2D geometric primitives used by the 3D  *)
(* clipper, ContactManifold) are represented by what they return: every    *)
(* call of update() receives a configuration `c` (the shapes, transforms   *)
(* and prediction of that simulation step) and the collaborators are       *)
(* functions of that configuration.                                        *)
(***************************************************************************)
EXTENDS Integers, Sequences, FiniteSets

VARIABLES
    dim,               \* build feature: 2 (dim2) or 3 (dim3)
    simplex,           \* self.simplex (opaque to this file: "new" or "used")
    sep_axis,          \* self.sep_axis : Option<axis>, <<>> is None
    contact_manifold,  \* self.contact_manifold : [contacts, subshape_id1, subshape_id2]
    clip_cache,        \* self.clip_cache : [poly1, poly2] (projected loops)
    new_contacts,      \* self.new_contacts : raw (Contact, FeatureId, FeatureId)
    manifold1,         \* self.manifold1 : ConvexPolygonalFeature
    manifold2,         \* self.manifold2 : ConvexPolygonalFeature
    args,              \* arguments of the last update() call, <<>> before any
    ret,               \* value returned by the last update() call, <<>> before any
    trace              \* what the last update() call invoked

vars == <<dim, simplex, sep_axis, contact_manifold, clip_cache, new_contacts,
          manifold1, manifold2, args, ret, trace>>

(***************************************************************************)
(* Bounds of the model.                                                    *)
(***************************************************************************)
MaxLinear == 1      \* prediction.linear ranges over 0..MaxLinear
MaxOff == 2         \* how much farther than the query's pair a clip point may be
MaxCoord == 2       \* 2D clipper inputs: coordinates range over 0..MaxCoord

None == <<>>
Some(x) == <<x>>

Min(a, b) == IF a < b THEN a ELSE b

(***************************************************************************)
(* FeatureId (shape::FeatureId).  Edge exists in the dim3 build only.      *)
(***************************************************************************)
Face(i) == <<"Face", i>>
Edge(i) == <<"Edge", i>>
Vertex(i) == <<"Vertex", i>>
Unknown == <<"Unknown", 0>>

(***************************************************************************)
(* ConvexPolygonalFeature.  `vertices` is the ordered loop (2D points in   *)
(* the dim2 build, vertex labels in the dim3 build, where the geometry is  *)
(* carried by the configuration), `edge_dir[i]` tells whether edge i has a *)
(* well-defined direction (Segment::direction() is Some).                  *)
(***************************************************************************)
EmptyFeature ==
    [nvertices |-> 0, vertices |-> <<>>, feature_id |-> Unknown,
     vertices_id |-> <<>>, edges_id |-> <<>>, edge_dir |-> <<>>, normal |-> FALSE]

\* A single vertex.
FV == [nvertices |-> 1, vertices |-> <<1>>, feature_id |-> Vertex(1),
       vertices_id |-> <<Vertex(1)>>, edges_id |-> <<>>, edge_dir |-> <<>>,
       normal |-> FALSE]

\* An edge with a well-defined direction.
FE == [nvertices |-> 2, vertices |-> <<1, 2>>, feature_id |-> Edge(1),
       vertices_id |-> <<Vertex(1), Vertex(2)>>, edges_id |-> <<Edge(1)>>,
       edge_dir |-> <<TRUE>>, normal |-> FALSE]

\* A near-zero-length edge: Segment::direction() is None.
FEd == [nvertices |-> 2, vertices |-> <<1, 2>>, feature_id |-> Edge(2),
        vertices_id |-> <<Vertex(1), Vertex(2)>>, edges_id |-> <<Edge(2)>>,
        edge_dir |-> <<FALSE>>, normal |-> FALSE]

\* A triangular face whose third edge is shorter than the direction epsilon.
FF == [nvertices |-> 3, vertices |-> <<1, 2, 3>>, feature_id |-> Face(1),
       vertices_id |-> <<Vertex(1), Vertex(2), Vertex(3)>>,
       edges_id |-> <<Edge(1), Edge(2), Edge(3)>>,
       edge_dir |-> <<TRUE, TRUE, FALSE>>, normal |-> TRUE]

\* dim2: a vertex and a segment ("face" of a polygon) with its two endpoints.
FV2(p) == [nvertices |-> 1, vertices |-> <<p, p>>, feature_id |-> Vertex(1),
           vertices_id |-> <<Vertex(1), Vertex(1)>>, edges_id |-> <<>>,
           edge_dir |-> <<>>, normal |-> FALSE]

FS2(a, b) == [nvertices |-> 2, vertices |-> <<a, b>>, feature_id |-> Face(1),
              vertices_id |-> <<Vertex(1), Vertex(2)>>, edges_id |-> <<>>,
              edge_dir |-> <<>>, normal |-> TRUE]

\* ConvexPolygonalFeature::nedges() (dim3).
NEdges(m) == IF Len(m.vertices) = 1 THEN 0
             ELSE IF Len(m.vertices) = 2 THEN 1 ELSE Len(m.vertices)


(***************************************************************************)
(* Contacts.  A depth is the rational <<n, d>> (d = 0 is the NaN a float   *)
(* division 0/0 yields).  A raw contact is the tuple (Contact, f1, f2) of  *)
(* new_contacts; `world` stands for the point pair (world1, world2), `bc`  *)
(* keeps the barycentric coordinate the 2D clipper built the point from,   *)
(* `frame` is the frame the points are expressed in.                       *)
(***************************************************************************)
RawContact(depth, world, f1, f2, bc) ==
    [depth |-> depth, world |-> world, f1 |-> f1, f2 |-> f2, bc |-> bc,
     frame |-> "local1"]

\* The acceptance test `-contact.depth <= prediction.linear`; a comparison
\* with NaN is false.
MarginAcceptsAlways(depth, linear) == TRUE

MarginAccepts(depth, linear) ==
    /\ depth[2] > 0
    /\ -depth[1] <= linear * depth[2]

\* `if -contact.depth <= prediction.linear { self.new_contacts.push(..) }`
PushIfAccepted(nc, contact, linear) ==
    IF MarginAccepts(contact.depth, linear) THEN Append(nc, contact) ELSE nc

(***************************************************************************)
(* 2D vectors with integer coordinates.                                    *)
(***************************************************************************)
Dot(u, v) == u[1] * v[1] + u[2] * v[2]
Sub(u, v) == <<u[1] - v[1], u[2] - v[2]>>

\* Segment::point_at(OnEdge([1 - bcoord, bcoord])) with bcoord = num / den,
\* as the point scaled by den.
PointAt(a, b, num, den) ==
    <<a[1] * (den - num) + b[1] * num, a[2] * (den - num) + b[2] * num>>

\* Contact::new_wo_depth(p1, p2, normal): depth = -dot(normal, p2 - p1), for
\* points scaled by den.
Contact2D(p1s, p2s, den, normal, f1, f2, num) ==
    RawContact(<<Dot(normal, p1s) - Dot(normal, p2s), den>>,
               <<p1s[1], p1s[2], p2s[1], p2s[2], den>>, f1, f2, <<num, den>>)

\* A segment of the 2D clipper with its projected range and endpoint ids,
\* after `if range[1] < range[0] { range.swap; features.swap; seg.swap }`.
Unsorted2D(m, ref, ortho) ==
    [a |-> m.vertices[1], b |-> m.vertices[2],
     ra |-> Dot(Sub(m.vertices[1], ref), ortho),
     rb |-> Dot(Sub(m.vertices[2], ref), ortho),
     fa |-> m.vertices_id[1], fb |-> m.vertices_id[2]]

Sorted2D(m, ref, ortho) ==
    LET s == Unsorted2D(m, ref, ortho)
    IN  IF s.rb < s.ra
        THEN [a |-> s.b, b |-> s.a, ra |-> s.rb, rb |-> s.ra,
              fa |-> s.fb, fb |-> s.fa]
        ELSE s

\* `if range2[0] > range1[1] || range1[0] > range2[1] { return; }`
Disjoint2DNever(s1, s2) == FALSE

Disjoint2D(s1, s2) == s2.ra > s1.rb \/ s1.ra > s2.rb

\* clip_polyfaces, dim2 body (lines 133-221).
ClipPolyfaces2D(nc, m1, m2, linear, normal) ==
    IF m1.nvertices <= 1 \/ m2.nvertices <= 1 THEN nc
    ELSE
    LET ortho == <<-normal[2], normal[1]>>
        ref == m1.vertices[1]
        s1 == Sorted2D(m1, ref, ortho)
        s2 == Sorted2D(m2, ref, ortho)
        length1 == s1.rb - s1.ra
        length2 == s2.rb - s2.ra
        first ==
            IF s2.ra > s1.ra
            THEN LET num == s2.ra - s1.ra
                 IN  Contact2D(PointAt(s1.a, s1.b, num, length1),
                               <<s2.a[1] * length1, s2.a[2] * length1>>,
                               length1, normal, m1.feature_id, s2.fa, num)
            ELSE LET num == s1.ra - s2.ra
                 IN  Contact2D(<<s1.a[1] * length2, s1.a[2] * length2>>,
                               PointAt(s2.a, s2.b, num, length2),
                               length2, normal, s1.fa, m2.feature_id, num)
        second ==
            IF s2.rb < s1.rb
            THEN LET num == s2.rb - s1.ra
                 IN  Contact2D(PointAt(s1.a, s1.b, num, length1),
                               <<s2.b[1] * length1, s2.b[2] * length1>>,
                               length1, normal, m1.feature_id, s2.fb, num)
            ELSE LET num == s1.rb - s2.ra
                 IN  Contact2D(<<s1.b[1] * length2, s1.b[2] * length2>>,
                               PointAt(s2.a, s2.b, num, length2),
                               length2, normal, s1.fb, m2.feature_id, num)
    IN  IF Disjoint2D(s1, s2) THEN nc
        ELSE PushIfAccepted(PushIfAccepted(nc, first, linear), second, linear)


(***************************************************************************)
(* The configuration of one update() call: the two shapes, their relative  *)
(* pose and the prediction, given by what the collaborators answer for it. *)
(*   capA, capB   as_convex_polyhedron() is Some                           *)
(*   ida, idb     the subshape indices                                     *)
(*   linear       prediction.linear                                        *)
(*   est[a]       -CSOPoint::from_shapes_toward_local1(.., a).point . a    *)
(*   gjk          the GJKResult of the full query                          *)
(*   shapeA/B     the shapes, by what their feature extractors return      *)
(*   pose         dim3: the relative placement of the extracted loops, by  *)
(*                what point_in_poly2d / plane_toi_with_line /             *)
(*                segment_against_segment answer for it                    *)
(***************************************************************************)
Axes == {"x", "y"}
Linears == 0..MaxLinear
SubIdPairs == {<<0, 1>>, <<1, 0>>}

\* The support separation along an axis: at the margin or just above it.
Ests(linear) == [Axes -> {linear, linear + 1}]
LowEst(linear) == [a \in Axes |-> linear]

ClosestPoints(depth, normal) ==
    [tag |-> "ClosestPoints", axis |-> "x", depth |-> depth, normal |-> normal]
NoIntersection(axis) ==
    [tag |-> "NoIntersection", axis |-> axis, depth |-> 0, normal |-> <<0, 1>>]
\* GJKResult::Intersection and GJKResult::Proximity: the `_ => {}` arm.
NoResult == [tag |-> "Other", axis |-> "x", depth |-> 0, normal |-> <<0, 1>>]

\* The query returns a closest-point pair only within the margin:
\* -depth <= prediction.linear.
QueryDepths(linear) == (-linear)..1

Shape(kind, h) == [kind |-> kind, h |-> h]
NoShape == Shape("none", 0)

\* dim3 shapes.  corner: a vertex; ridge: its exactly supporting edge is a
\* near-zero-length chamfer, within the angular tolerance the extractor
\* reports the neighbouring edge; slab: a triangular face.
Shapes3 == {Shape("corner", 0), Shape("ridge", 0), Shape("slab", 0)}

\* dim2 shapes (the normal is the y axis).  A is below: floor is a segment
\* along the x axis, peg a vertex.  B is above: tilted is a segment over the
\* floor's right half with its ends at heights h and 1, far a segment beyond
\* the floor, tip a vertex.
ShapesA2 == {Shape("floor", 0), Shape("peg", 0)}
ShapesB2 == {Shape("tilted", h) : h \in 0..MaxCoord}
            \cup {Shape("far", 0), Shape("tip", 0)}

\* cpa.local_support_face_toward / cpb.support_face_toward
SupportFaceToward(shape) ==
    CASE shape.kind = "corner" -> FV
      [] shape.kind = "ridge" -> FEd
      [] shape.kind = "slab" -> FF
      [] shape.kind = "floor" -> FS2(<<0, 0>>, <<2, 0>>)
      [] shape.kind = "peg" -> FV2(<<1, 0>>)
      [] shape.kind = "tilted" -> FS2(<<3, shape.h>>, <<1, 1>>)
      [] shape.kind = "far" -> FS2(<<4, 0>>, <<3, 0>>)
      [] shape.kind = "tip" -> FV2(<<1, 1>>)
      [] OTHER -> EmptyFeature

\* cpa.local_support_feature_toward / cpb.support_feature_toward
SupportFeatureToward(shape) ==
    IF shape.kind = "ridge" THEN FE ELSE SupportFaceToward(shape)

\* `if contact.depth > na::zero()` selects the extractor (lines 512-530).
Extract(shape, depth) ==
    IF depth > 0 THEN SupportFaceToward(shape) ELSE SupportFeatureToward(shape)

\* The two early returns of the dim3 clipper (lines 226-232).
SkipClip3DBoth(m1, m2) ==
    /\ Len(m1.vertices) <= 2 /\ Len(m2.vertices) <= 2
    /\ (Len(m1.vertices) = 1 \/ Len(m2.vertices) = 1)

SkipClip3D(m1, m2) ==
    \/ Len(m1.vertices) <= 2 /\ Len(m2.vertices) <= 2
    \/ Len(m1.vertices) = 1 \/ Len(m2.vertices) = 1

\* Answers of the 2D primitives for a pair of extracted loops: in1[i] is
\* Some(off) when vertex i of loop 1 lies inside loop 2 and the ray along
\* the normal meets the other supporting plane, the point pair being `off`
\* farther apart than the query's pair; cross holds the edge pairs whose
\* closest points are interior to both edges.
NoIn(m) == [i \in 1..Len(m.vertices) |-> None]
FirstIn(m) == [i \in 1..Len(m.vertices) |-> IF i = 1 THEN Some(0) ELSE None]
AllIn(m) == [i \in 1..Len(m.vertices) |-> Some(Min(i - 1, MaxOff))]
Crossing(e1, e2, off) == [e1 |-> e1, e2 |-> e2, off |-> off]

PoseIds == 1..4

\* 1: the loops do not overlap; 2: one loop inside the other; 3: the loops
\* overlap across the last edge of loop 1; 4: across the last edge of loop 2.
Geom(pose, m1, m2) ==
    LET en1 == Len(m2.vertices) > 2
        en2 == Len(m1.vertices) > 2
    IN  CASE pose = 2 ->
               [in1 |-> IF en1 THEN AllIn(m1) ELSE NoIn(m1),
                in2 |-> IF en1 THEN NoIn(m2) ELSE AllIn(m2), cross |-> {}]
          [] pose = 3 ->
               [in1 |-> IF en1 THEN FirstIn(m1) ELSE NoIn(m1), in2 |-> NoIn(m2),
                cross |-> {Crossing(1, 1, 0), Crossing(NEdges(m1), 1, 1)}]
          [] pose = 4 ->
               [in1 |-> NoIn(m1), in2 |-> IF en2 THEN FirstIn(m2) ELSE NoIn(m2),
                cross |-> {Crossing(1, NEdges(m2), MaxOff)}]
          [] OTHER -> [in1 |-> NoIn(m1), in2 |-> NoIn(m2), cross |-> {}]

Config(capA, capB, ids, linear, est, gjk, shapeA, shapeB, pose) ==
    [capA |-> capA, capB |-> capB, ida |-> ids[1], idb |-> ids[2],
     linear |-> linear, est |-> est, gjk |-> gjk,
     shapeA |-> shapeA, shapeB |-> shapeB, pose |-> pose]

ShapesA(d) == IF d = 2 THEN ShapesA2 ELSE Shapes3
ShapesB(d) == IF d = 2 THEN ShapesB2 ELSE Shapes3

\* The poses that differ for the clipper: the dim2 clipper computes from the
\* coordinates, the dim3 clipper skips the small features.
PosesFor(d, sa, sb, depth) ==
    IF d = 2 \/ SkipClip3D(Extract(sa, depth), Extract(sb, depth))
    THEN {1} ELSE PoseIds

\* Shapes without the convex-polyhedron capability.
NotCapableConfigs ==
    { Config(caps[1], caps[2], <<0, 1>>, lin, LowEst(lin), NoResult,
             NoShape, NoShape, 1) :
        caps \in {<<FALSE, FALSE>>, <<FALSE, TRUE>>, <<TRUE, FALSE>>},
        lin \in Linears }

\* Capable shapes farther apart than the margin, or in a degenerate pose.
SeparatedConfigs ==
    UNION { { Config(TRUE, TRUE, ids, lin, est, g, NoShape, NoShape, 1) :
                ids \in SubIdPairs, est \in Ests(lin),
                g \in {NoIntersection(a) : a \in Axes} \cup {NoResult} } :
            lin \in Linears }

\* Capable shapes within the margin: no axis separates them by more than it.
TouchingConfigs(d) ==
    UNION { UNION { UNION { UNION {
        { Config(TRUE, TRUE, <<0, 1>>, lin, LowEst(lin),
                 ClosestPoints(depth, <<0, 1>>), sa, sb, pose) :
            pose \in PosesFor(d, sa, sb, depth) } :
        sb \in ShapesB(d) } : sa \in ShapesA(d) } :
        depth \in QueryDepths(lin) } : lin \in Linears }

Configs(d) == NotCapableConfigs \cup SeparatedConfigs \cup TouchingConfigs(d)

Configs2 == Configs(2)
Configs3 == Configs(3)

(***************************************************************************)
(* clip_polyfaces, dim3 body (lines 224-456).                              *)
(***************************************************************************)
Contact3D(depth, off, kind, i, j, f1, f2) ==
    RawContact(<<depth - off, 1>>, <<kind, i, j>>, f1, f2, <<0, 1>>)

\* Lines 374-398: vertices of loop 1 inside loop 2 (only if loop 2 has more
\* than two points), tagged (vertex id of 1, feature id of 2).
RECURSIVE Vertices1In2(_, _, _, _, _, _, _)
Vertices1In2(nc, i, m1, m2, geom, depth, linear) ==
    IF i > Len(m1.vertices) THEN nc
    ELSE Vertices1In2(
            IF geom.in1[i] # None
            THEN PushIfAccepted(nc,
                    Contact3D(depth, geom.in1[i][1], "v1", i, 0,
                              m1.vertices_id[i], m2.feature_id), linear)
            ELSE nc,
            i + 1, m1, m2, geom, depth, linear)

\* Lines 400-424: vertices of loop 2 inside loop 1, tagged (feature id of 1,
\* vertex id of 2).
RECURSIVE Vertices2In1(_, _, _, _, _, _, _)
Vertices2In1(nc, i, m1, m2, geom, depth, linear) ==
    IF i > Len(m2.vertices) THEN nc
    ELSE Vertices2In1(
            IF geom.in2[i] # None
            THEN PushIfAccepted(nc,
                    Contact3D(depth, geom.in2[i][1], "v2", 0, i,
                              m1.feature_id, m2.vertices_id[i]), linear)
            ELSE nc,
            i + 1, m1, m2, geom, depth, linear)

\* Lines 426-456: every edge pair, i1 outer and i2 inner, tagged with the two
\* edge ids.
RECURSIVE EdgePairs(_, _, _, _, _, _, _, _)
EdgePairs(nc, i1, i2, m1, m2, geom, depth, linear) ==
    IF i1 > NEdges(m1) THEN nc
    ELSE IF i2 > NEdges(m2)
    THEN EdgePairs(nc, i1 + 1, 1, m1, m2, geom, depth, linear)
    ELSE LET hit == {x \in geom.cross : x.e1 = i1 /\ x.e2 = i2}
         IN  EdgePairs(
                IF hit # {}
                THEN PushIfAccepted(nc,
                        Contact3D(depth, (CHOOSE x \in hit : TRUE).off, "x", i1, i2,
                                  m1.edges_id[i1], m2.edges_id[i2]), linear)
                ELSE nc,
                i1, i2 + 1, m1, m2, geom, depth, linear)

\* Returns the new raw contact list and the clip cache.  The cache is cleared
\* on entry (line 131) and filled by the projection (lines 246-256).
ClipPolyfaces3D(nc, m1, m2, geom, depth, linear) ==
    IF SkipClip3D(m1, m2)
    THEN [nc |-> nc, cache |-> [poly1 |-> <<>>, poly2 |-> <<>>]]
    ELSE
    LET s1 == IF Len(m2.vertices) > 2
              THEN Vertices1In2(<<>>, 1, m1, m2, geom, depth, linear) ELSE <<>>
        s2 == IF Len(m1.vertices) > 2
              THEN Vertices2In1(s1, 1, m1, m2, geom, depth, linear) ELSE s1
    IN  [nc |-> EdgePairs(s2, 1, 1, m1, m2, geom, depth, linear),
         cache |-> [poly1 |-> m1.vertices, poly2 |-> m2.vertices]]

\* clip_polyfaces (line 130): the body the build selects.
ClipPolyfaces(d, nc, m1, m2, c) ==
    IF d = 2
    THEN [nc |-> ClipPolyfaces2D(nc, m1, m2, c.linear, c.gjk.normal),
          cache |-> [poly1 |-> <<>>, poly2 |-> <<>>]]
    ELSE ClipPolyfaces3D(nc, m1, m2, Geom(c.pose, m1, m2), c.gjk.depth, c.linear)

\* Lines 532-538: the query's own point pair when clipping produced nothing.
QueryContact(c, m1, m2) ==
    RawContact(<<c.gjk.depth, 1>>, <<"gjk", 0, 0>>, m1.feature_id, m2.feature_id,
               <<0, 1>>)

FallbackAlways(nc, c, m1, m2) == Append(nc, QueryContact(c, m1, m2))

Fallback(nc, c, m1, m2) ==
    IF Len(nc) = 0 THEN Append(nc, QueryContact(c, m1, m2)) ELSE nc

(***************************************************************************)
(* save_new_contacts_as_contact_manifold (lines 73-128).                   *)
(***************************************************************************)
\* self.manifoldN.edge(f).expect(..).direction() is Some.
EdgeHasDirection(m, f) ==
    \E i \in 1..Len(m.edges_id) : m.edges_id[i] = f /\ m.edge_dir[i]

\* The match on a feature id reaches the end of its arm (no `continue`).
KinematicSetAlways(f, m) == TRUE

KinematicSet(f, m) ==
    IF f[1] = "Edge" THEN EdgeHasDirection(m, f) ELSE f[1] \in {"Face", "Vertex"}

\* c.transform(m1)
Transformed(c) == [c EXCEPT !.frame = "world"]

\* ContactManifold::save_cache_and_clear: the contacts go, the id cache stays.
SaveCacheAndClear(contacts) == <<>>

\* new_contacts.drain(..) (line 87): what the loop leaves in new_contacts.
Drained(nc) == SubSeq(nc, Len(nc) + 1, Len(nc))

\* The loop over new_contacts.drain(..): the contacts pushed in the manifold.
RECURSIVE PushKept(_, _, _, _, _)
PushKept(contacts, nc, i, m1, m2) ==
    IF i > Len(nc) THEN contacts
    ELSE PushKept(
            IF KinematicSet(nc[i].f1, m1) /\ KinematicSet(nc[i].f2, m2)
            THEN Append(contacts, Transformed(nc[i]))
            ELSE contacts,
            nc, i + 1, m1, m2)

\* (a variant that forgets line 85)
SaveNewContactsNoClear(contacts, nc, m1, m2) == PushKept(contacts, nc, 1, m1, m2)

SaveNewContacts(contacts, nc, m1, m2) ==
    PushKept(SaveCacheAndClear(contacts), nc, 1, m1, m2)


(***************************************************************************)
(* update() (lines 463-550).                                               *)
(***************************************************************************)
\* Line 475: both shapes expose the convex-polyhedron capability.
ApplicableEither(capA, capB) == capA \/ capB

Applicable(capA, capB) == capA /\ capB

\* Line 480: `-point.point.coords.dot(&*sep_axis) > prediction.linear`.
SepAxisRejectsNever(est, linear) == FALSE

SepAxisRejects(est, linear) == est > linear

\* Line 485: `self.sep_axis = None` after a failed rejection test.
InvalidatedKeeps(axis) == axis

Invalidated(axis) == None

\* Line 540: `GJKResult::NoIntersection(sep_axis) => self.sep_axis = Some(sep_axis)`.
AfterQueryForgets(axis, gjk) == axis

AfterQuery(axis, gjk) ==
    IF gjk.tag = "NoIntersection" THEN Some(gjk.axis) ELSE axis

\* contacts_internal::support_map_against_support_map_with_simplex: a
\* function of the shapes, their relative pose and the margin.
Query(c) == c.gjk

NoTrace ==
    [sat |-> FALSE, query |-> FALSE, extract |-> "none", clip |-> FALSE,
     clears |-> 0, pushes |-> 0, raw |-> <<>>]

\* Lines 478-480: an axis is cached and the shapes are still farther apart
\* along it than the margin.
StillSeparated(c) ==
    IF sep_axis = None THEN FALSE
    ELSE SepAxisRejects(c.est[sep_axis[1]], c.linear)

\* Line 475, else branch: the shapes are not both convex polyhedra.
NotApplicable(c) ==
    /\ ~Applicable(c.capA, c.capB)
    /\ ret' = Some(FALSE)
    /\ args' = Some(c)
    /\ trace' = NoTrace
    /\ UNCHANGED <<dim, simplex, sep_axis, contact_manifold, clip_cache,
                   new_contacts, manifold1, manifold2>>

\* Lines 478-483: the cached axis still separates the shapes.
EarlyOut(c) ==
    /\ Applicable(c.capA, c.capB)
    /\ StillSeparated(c)
    /\ contact_manifold' =
          [contact_manifold EXCEPT !.contacts = SaveCacheAndClear(@)]
    /\ ret' = Some(TRUE)
    /\ args' = Some(c)
    /\ trace' = [NoTrace EXCEPT !.sat = TRUE, !.clears = 1]
    /\ UNCHANGED <<dim, simplex, sep_axis, clip_cache, new_contacts,
                   manifold1, manifold2>>

\* Lines 485-546: the full query, the clipping and the save.
FullUpdate(c) ==
    /\ Applicable(c.capA, c.capB)
    /\ ~StillSeparated(c)
    /\ LET axis0 == IF sep_axis # None THEN Invalidated(sep_axis) ELSE sep_axis
           res == Query(c)
           closest == res.tag = "ClosestPoints"
           m1 == IF closest THEN Extract(c.shapeA, res.depth) ELSE EmptyFeature
           m2 == IF closest THEN Extract(c.shapeB, res.depth) ELSE EmptyFeature
           clipped == ClipPolyfaces(dim, <<>>, m1, m2, c)
           raw == IF closest THEN Fallback(clipped.nc, c, m1, m2) ELSE <<>>
           saved == SaveNewContacts(contact_manifold.contacts, raw, m1, m2)
       IN  /\ sep_axis' = AfterQuery(axis0, res)
           /\ contact_manifold' =
                 [contacts |-> saved, subshape_id1 |-> c.ida, subshape_id2 |-> c.idb]
           /\ simplex' = "used"
           /\ manifold1' = m1
           /\ manifold2' = m2
           /\ clip_cache' = IF closest THEN clipped.cache ELSE clip_cache
           /\ new_contacts' = Drained(raw)
           /\ trace' =
                 [sat |-> sep_axis # None, query |-> TRUE,
                  extract |-> IF ~closest THEN "none"
                              ELSE IF res.depth > 0 THEN "face" ELSE "feature",
                  clip |-> closest, clears |-> 1, pushes |-> Len(saved),
                  raw |-> raw]
    /\ ret' = Some(TRUE)
    /\ args' = Some(c)
    /\ UNCHANGED dim

Update(c) == NotApplicable(c) \/ EarlyOut(c) \/ FullUpdate(c)

\* ConvexPolyhedronConvexPolyhedronManifoldGenerator::new() (lines 60-71).
Init ==
    /\ dim \in {2, 3}
    /\ simplex = "new"
    /\ sep_axis = None
    /\ contact_manifold = [contacts |-> <<>>, subshape_id1 |-> 0, subshape_id2 |-> 0]
    /\ clip_cache = [poly1 |-> <<>>, poly2 |-> <<>>]
    /\ new_contacts = <<>>
    /\ manifold1 = EmptyFeature
    /\ manifold2 = EmptyFeature
    /\ args = None
    /\ ret = None
    /\ trace = NoTrace

Next == \E c \in (IF dim = 2 THEN Configs2 ELSE Configs3) : Update(c)

Spec == Init /\ [][Next]_vars

\* num_contacts() (lines 553-555).
NumContacts == Len(contact_manifold.contacts)

\* contacts(out) (lines 558-562): what the call appends to `out`.
ContactsOut == IF NumContacts # 0 THEN <<contact_manifold>> ELSE <<>>


(***************************************************************************)
(* The dim2 clipper alone: clip_polyfaces applied to any two two-point     *)
(* segment features, any prediction margin and an axis-aligned normal.     *)
(***************************************************************************)
Points2 == (0..MaxCoord) \X (0..MaxCoord)
Normals2 == {<<0, 1>>, <<1, 0>>}

InitClip2D ==
    /\ dim = 2
    /\ simplex = "used"
    /\ sep_axis = None
    /\ contact_manifold = [contacts |-> <<>>, subshape_id1 |-> 0, subshape_id2 |-> 0]
    /\ clip_cache = [poly1 |-> <<>>, poly2 |-> <<>>]
    /\ new_contacts = <<>>
    /\ \E a1 \in Points2, b1 \in Points2 : manifold1 = FS2(a1, b1)
    /\ \E a2 \in Points2, b2 \in Points2 : manifold2 = FS2(a2, b2)
    /\ \E lin \in Linears, n \in Normals2 :
          args = Some(Config(TRUE, TRUE, <<0, 1>>, lin, LowEst(lin),
                             ClosestPoints(0, n), NoShape, NoShape, 1))
    /\ ret = None
    /\ trace = NoTrace

\* Line 515 / 529: self.clip_polyfaces(prediction, contact.normal).
Clip2D ==
    /\ ~trace.clip
    /\ new_contacts' =
          ClipPolyfaces(dim, new_contacts, manifold1, manifold2, args[1]).nc
    /\ trace' = [trace EXCEPT !.clip = TRUE]
    /\ UNCHANGED <<dim, simplex, sep_axis, contact_manifold, clip_cache,
                   manifold1, manifold2, args, ret>>

NextClip2D == Clip2D

SpecClip2D == InitClip2D /\ [][NextClip2D]_vars

(***************************************************************************)
(* C7.  2D clipper: with the two segments' intervals taken along the axis  *)
(* orthogonal to the normal, the clipper produces no contact when the      *)
(* intervals do not overlap; when they overlap with positive length it     *)
(* produces at most 2 contacts, each with -depth <= prediction.linear and  *)
(* each built from a barycentric coordinate in [0, 1].                     *)
(***************************************************************************)
Max(a, b) == IF a > b THEN a ELSE b

\* The interval of a two-point feature along ortho, relative to ref.
Interval2D(m) ==
    LET n == args[1].gjk.normal
        ortho == <<-n[2], n[1]>>
        pa == Dot(m.vertices[1], ortho)
        pb == Dot(m.vertices[2], ortho)
    IN  [lo |-> Min(pa, pb), hi |-> Max(pa, pb)]

Overlap2D ==
    Min(Interval2D(manifold1).hi, Interval2D(manifold2).hi)
        - Max(Interval2D(manifold1).lo, Interval2D(manifold2).lo)

\* -depth <= linear, read off the stored point pair (scaled by its den).
WithinMargin2D(c, linear) ==
    LET n == args[1].gjk.normal
        w == c.world
    IN  /\ w[5] > 0
        /\ Dot(n, <<w[3] - w[1], w[4] - w[2]>>) <= linear * w[5]

C7_Clip2D ==
    trace.clip =>
        /\ Overlap2D < 0 => new_contacts = <<>>
        /\ Overlap2D > 0 =>
              /\ Len(new_contacts) <= 2
              /\ \A i \in 1..Len(new_contacts) :
                    /\ WithinMargin2D(new_contacts[i], args[1].linear)
                    /\ new_contacts[i].bc[2] > 0
                    /\ 0 <= new_contacts[i].bc[1]
                    /\ new_contacts[i].bc[1] <= new_contacts[i].bc[2]

\* An overlap of positive length clipped to two contacts, one of them
\* interpolated strictly inside a segment.
C7_Witness ==
    /\ trace.clip
    /\ Overlap2D > 0
    /\ Len(new_contacts) = 2
    /\ \E i \in 1..2 : /\ 0 < new_contacts[i].bc[1]
                       /\ new_contacts[i].bc[1] < new_contacts[i].bc[2]


(***************************************************************************)
(* Vocabulary of the properties of update().                               *)
(***************************************************************************)
Called == args # None
LastArgs == args[1]
Contacts == contact_manifold.contacts

\* -depth <= linear for a stored contact.
WithinMargin(c, linear) == c.depth[2] > 0 /\ -c.depth[1] <= linear * c.depth[2]

\* A raw contact as the manifold stores it.
Stored(c) == [c EXCEPT !.frame = "world"]

(***************************************************************************)
(* C1.  update() returns true exactly when both shapes expose the          *)
(* convex-polyhedron capability, whatever the query result; when either    *)
(* lacks it the call returns false and does nothing else: the manifold and *)
(* every other field are left as they were and neither the separating-axis *)
(* test, the query, feature extraction nor clipping runs.                  *)
(***************************************************************************)
C1_Applicability ==
    [][ LET c == args'[1]
        IN  /\ ret' = Some(c.capA /\ c.capB)
            /\ ~(c.capA /\ c.capB) =>
                  /\ UNCHANGED <<simplex, sep_axis, contact_manifold, clip_cache,
                                 new_contacts, manifold1, manifold2>>
                  /\ ~trace'.sat /\ ~trace'.query /\ ~trace'.clip
                  /\ trace'.extract = "none"
                  /\ trace'.clears = 0 /\ trace'.pushes = 0 ]_vars

\* A call on a shape pair of which only A is capable, made while the
\* manifold held contacts: false is returned and the contacts are still there.
C1_Witness ==
    /\ Called
    /\ ret = Some(FALSE)
    /\ LastArgs.capA /\ ~LastArgs.capB
    /\ Len(Contacts) > 0

(***************************************************************************)
(* C2.  Separating-axis shortcut: an update() on capable shapes that finds *)
(* a cached axis along which the estimated separation exceeds              *)
(* prediction.linear clears the manifold (through save_cache_and_clear),   *)
(* returns true, keeps the cached axis and runs neither the query nor      *)
(* feature extraction nor clipping, and inserts no contact.  Holding at    *)
(* every such step, it holds along any run of consecutive such updates.    *)
(***************************************************************************)
C2_Shortcut ==
    [][ LET c == args'[1]
        IN  (/\ sep_axis # None
             /\ c.capA /\ c.capB
             /\ c.est[sep_axis[1]] > c.linear)
            => /\ ret' = Some(TRUE)
               /\ contact_manifold'.contacts = <<>>
               /\ sep_axis' = sep_axis
               /\ ~trace'.query /\ ~trace'.clip /\ trace'.extract = "none"
               /\ trace'.clears = 1 /\ trace'.pushes = 0
               /\ UNCHANGED <<simplex, new_contacts, manifold1, manifold2,
                              clip_cache>> ]_vars

\* An update() that took the shortcut.
C2_Witness ==
    /\ Called
    /\ ret = Some(TRUE)
    /\ sep_axis # None
    /\ trace.sat /\ ~trace.query
    /\ LastArgs.est[sep_axis[1]] > LastArgs.linear

(***************************************************************************)
(* C3.  When the full query returns a separating axis, that axis is cached *)
(* and the update ends with an empty manifold and returns true; when it    *)
(* returns the intermediate/no-result state, the update ends with an empty *)
(* manifold, returns true and leaves the cache empty.                      *)
(***************************************************************************)
C3_Separated ==
    (Called /\ trace.query) =>
        /\ LastArgs.gjk.tag = "NoIntersection" =>
              /\ sep_axis = Some(LastArgs.gjk.axis)
              /\ Len(Contacts) = 0
              /\ ret = Some(TRUE)
        /\ LastArgs.gjk.tag = "Other" =>
              /\ sep_axis = None
              /\ Len(Contacts) = 0
              /\ ret = Some(TRUE)

\* The query replaced a stale axis by the one it returned.
C3_Witness ==
    /\ Called
    /\ trace.query /\ trace.sat
    /\ LastArgs.gjk.tag = "NoIntersection"
    /\ sep_axis = Some(LastArgs.gjk.axis)
    /\ Len(Contacts) = 0

(***************************************************************************)
(* C4.  Margin invariant, as claimed: after any update(), every contact    *)
(* held in the manifold satisfies -depth <= prediction.linear for the      *)
(* prediction passed to that update.                                       *)
(***************************************************************************)
C4_Original ==
    Called => \A i \in 1..Len(Contacts) : WithinMargin(Contacts[i], LastArgs.linear)

(***************************************************************************)
(* C4, amended.  After any update() that returns true, every contact held  *)
(* in the manifold satisfies -depth <= prediction.linear for the           *)
(* prediction passed to that update: the clipper's contacts and the        *)
(* query's own contact alike.                                              *)
(***************************************************************************)
C4_Margin ==
    (Called /\ ret = Some(TRUE)) =>
        \A i \in 1..Len(Contacts) : WithinMargin(Contacts[i], LastArgs.linear)

\* One slab inside the other: three vertex contacts are candidates and the
\* margin test kept some and rejected some.
C4_Witness ==
    /\ Called /\ dim = 3
    /\ ret = Some(TRUE)
    /\ trace.clip /\ LastArgs.pose = 2
    /\ Len(manifold1.vertices) = 3 /\ Len(manifold2.vertices) = 3
    /\ Len(Contacts) \in {1, 2}
    /\ \A i \in 1..Len(Contacts) : Contacts[i].world[1] = "v1"


(***************************************************************************)
(* C5.  The manifold is cleared (retaining its id cache) and rebuilt on    *)
(* every update() that returns true: the clear runs exactly once, and      *)
(* after the call the manifold holds only contacts derived from that       *)
(* call's raw contacts, in the order they were produced, and nothing left  *)
(* over from an earlier update; on the early-out path it is empty.         *)
(***************************************************************************)
\* s is t with some elements left out: s[i..] is selected in order from t[j..].
RECURSIVE SelectedFrom(_, _, _, _)
SelectedFrom(s, t, i, j) ==
    IF i > Len(s) THEN TRUE
    ELSE IF j > Len(t) THEN FALSE
    ELSE IF s[i] = Stored(t[j]) THEN SelectedFrom(s, t, i + 1, j + 1)
    ELSE SelectedFrom(s, t, i, j + 1)

C5_Rebuilt ==
    (Called /\ ret = Some(TRUE)) =>
        /\ trace.clears = 1
        /\ SelectedFrom(Contacts, trace.raw, 1, 1)
        /\ ~trace.query => Len(Contacts) = 0

\* A rebuilt manifold that holds some of the call's raw contacts, not all.
C5_Witness ==
    /\ Called
    /\ ret = Some(TRUE)
    /\ Len(Contacts) >= 1
    /\ Len(trace.raw) > Len(Contacts)

C8_Invalidation ==
    [][ LET c == args'[1]
        IN  (/\ sep_axis # None
             /\ c.capA /\ c.capB
             /\ c.est[sep_axis[1]] <= c.linear)
            => /\ trace'.sat /\ trace'.query
               /\ sep_axis' = IF c.gjk.tag = "NoIntersection"
                              THEN Some(c.gjk.axis) ELSE None ]_vars

\* A stale axis was tested, failed to reject, and the query then found
\* the shapes within the margin: the cache is empty.
C8_Witness ==
    /\ Called
    /\ trace.sat /\ trace.query
    /\ LastArgs.gjk.tag = "ClosestPoints"
    /\ sep_axis = None
    /\ Len(Contacts) = 1

(***************************************************************************)
(* C9.  Degenerate skip of the dim3 clipper, as claimed: clipping is       *)
(* skipped if and only if both features have at most two vertices and at   *)
(* least one has a single vertex, and then the query's point pair is the   *)
(* sole raw contact, tagged with the two features' own ids.                *)
(***************************************************************************)
ClipSkipped == clip_cache.poly1 = <<>> /\ clip_cache.poly2 = <<>>

QueryPairAlone ==
    trace.raw = << [depth |-> <<LastArgs.gjk.depth, 1>>, world |-> <<"gjk", 0, 0>>,
                    f1 |-> manifold1.feature_id, f2 |-> manifold2.feature_id,
                    bc |-> <<0, 1>>, frame |-> "local1"] >>

C9_Original ==
    (Called /\ dim = 3 /\ trace.clip) =>
        LET n1 == Len(manifold1.vertices)
            n2 == Len(manifold2.vertices)
            degenerate == n1 <= 2 /\ n2 <= 2 /\ (n1 = 1 \/ n2 = 1)
        IN  /\ ClipSkipped <=> degenerate
            /\ degenerate => QueryPairAlone

(***************************************************************************)
(* C9, amended.  Clipping is skipped if and only if both features have at  *)
(* most two vertices or at least one of them has a single vertex; in that  *)
(* case the query's point pair is the sole raw contact, tagged with the    *)
(* two features' own ids.                                                  *)
(***************************************************************************)
C9_Skip ==
    (Called /\ dim = 3 /\ trace.clip) =>
        LET n1 == Len(manifold1.vertices)
            n2 == Len(manifold2.vertices)
            small == (n1 <= 2 /\ n2 <= 2) \/ n1 = 1 \/ n2 = 1
        IN  /\ ClipSkipped <=> small
            /\ small => QueryPairAlone

\* Two edges: no clipping, the query's pair stands alone.
C9_Witness ==
    /\ Called /\ dim = 3 /\ trace.clip
    /\ Len(manifold1.vertices) = 2 /\ Len(manifold2.vertices) = 2
    /\ ClipSkipped
    /\ Len(trace.raw) = 1

(***************************************************************************)
(* C10.  Kinematic assembly drops the degenerate-edge contacts and only    *)
(* those: a raw contact is inserted unless the feature id on either side   *)
(* is an Edge without a well-defined direction; such a contact alone is    *)
(* skipped (nothing pushed for it) and the other raw contacts of the same  *)
(* update are inserted in order, so the manifold's count is the raw count  *)
(* minus the number of degenerate-edge contacts.                           *)
(***************************************************************************)
DegenerateEdge(f, m) ==
    /\ f[1] = "Edge"
    /\ \A i \in 1..Len(m.edges_id) : m.edges_id[i] = f => ~m.edge_dir[i]

DegenerateContact(c) ==
    DegenerateEdge(c.f1, manifold1) \/ DegenerateEdge(c.f2, manifold2)

RECURSIVE NonDegenerate(_, _)
NonDegenerate(raw, i) ==
    IF i > Len(raw) THEN <<>>
    ELSE IF DegenerateContact(raw[i]) THEN NonDegenerate(raw, i + 1)
    ELSE <<Stored(raw[i])>> \o NonDegenerate(raw, i + 1)

C10_DegenerateEdges ==
    (Called /\ ret = Some(TRUE) /\ trace.query) =>
        /\ Contacts = NonDegenerate(trace.raw, 1)
        /\ Len(Contacts) =
              Len(trace.raw)
                - Cardinality({i \in 1..Len(trace.raw) : DegenerateContact(trace.raw[i])})
        /\ trace.pushes = Len(Contacts)

\* Several raw contacts of which exactly one came from a degenerate edge:
\* it was dropped and the others were inserted.
C10_Witness ==
    /\ Called
    /\ ret = Some(TRUE)
    /\ Len(trace.raw) >= 2
    /\ Len(Contacts) = Len(trace.raw) - 1
    /\ \E i \in 1..Len(trace.raw) : DegenerateContact(trace.raw[i])


(***************************************************************************)
(* C11.  In every state reachable by any sequence of update() calls, if    *)
(* the separating-axis cache holds an axis then the manifold is empty:     *)
(* num_contacts() is 0 and contacts() appends nothing.                     *)
(***************************************************************************)
C11_CachedAxisEmptyManifold ==
    sep_axis # None => (NumContacts = 0 /\ ContactsOut = <<>>)

\* An axis is cached by a call that found a stale axis, invalidated it, ran
\* the query and got a separating axis back.
C11_Witness ==
    /\ Called
    /\ ret = Some(TRUE)
    /\ trace.sat /\ trace.query
    /\ sep_axis # None
    /\ NumContacts = 0


(***************************************************************************)
(* C12.  After any update() that returns true, the manifold's two subshape *)
(* indices equal the ida and idb passed to that call, on every path        *)
(* through update() including the separating-axis early-out, and also when *)
(* consecutive calls pass different subshape indices.                      *)
(***************************************************************************)
C12_Original ==
    (Called /\ ret = Some(TRUE)) =>
        /\ contact_manifold.subshape_id1 = LastArgs.ida
        /\ contact_manifold.subshape_id2 = LastArgs.idb

(***************************************************************************)
(* C12, as the code behaves.  An update() that returns true and runs the   *)
(* full query leaves the manifold's subshape indices equal to the ida and  *)
(* idb of that call; one that takes the separating-axis early-out leaves   *)
(* them as they were before the call.                                      *)
(***************************************************************************)
C12_SubshapeIds ==
    [][ ret' = Some(TRUE) =>
          IF trace'.query
          THEN /\ contact_manifold'.subshape_id1 = args'[1].ida
               /\ contact_manifold'.subshape_id2 = args'[1].idb
          ELSE /\ contact_manifold'.subshape_id1 = contact_manifold.subshape_id1
               /\ contact_manifold'.subshape_id2 = contact_manifold.subshape_id2 ]_vars

\* An early-out called with subshape indices other than those the manifold
\* was given by an earlier full update.
C12_Witness ==
    /\ Called
    /\ ret = Some(TRUE)
    /\ trace.sat /\ ~trace.query
    /\ contact_manifold.subshape_id1 # LastArgs.ida
    /\ contact_manifold.subshape_id1 = LastArgs.idb


(***************************************************************************)
(* C13.  Whenever the full query of an update() returns a closest-point    *)
(* pair, the raw contact list handed to kinematic assembly is non-empty:   *)
(* it is the clipper's output when the clipper produced at least one       *)
(* contact, and otherwise exactly one contact, the query's own point pair  *)
(* tagged with the overall feature ids of the two extracted features; the  *)
(* query's contact is never added alongside clipper contacts, and the raw  *)
(* contact list is empty again when update() returns.                      *)
(***************************************************************************)
ClipperOutput == ClipPolyfaces(dim, <<>>, manifold1, manifold2, LastArgs).nc

C13_RawContacts ==
    (Called /\ trace.query /\ LastArgs.gjk.tag = "ClosestPoints") =>
        /\ Len(trace.raw) >= 1
        /\ ClipperOutput # <<>> => trace.raw = ClipperOutput
        /\ ClipperOutput = <<>> => QueryPairAlone
        /\ new_contacts = <<>>

\* The clipper produced several contacts: they alone were handed over.
C13_Witness ==
    /\ Called /\ trace.query
    /\ LastArgs.gjk.tag = "ClosestPoints"
    /\ Len(ClipperOutput) >= 2
    /\ trace.raw = ClipperOutput
    /\ new_contacts = <<>>

====
